---- MODULE Spec2Model ----
(***************************************************************************)
(* Model of perfkitbenchmarker/linux_benchmarks/                           *)
(* cloud_datastore_ycsb_benchmark.py: the Prepare / Run / Cleanup phases   *)
(* of the Cloud Datastore YCSB benchmark, and the paginated bulk deletion  *)
(* of Cleanup (_ReadAndDeleteAllEntities, _DeletionTask) together with the *)
(* thread pool its futures are submitted to.                               *)
(*                                                                         *)
(* The Datastore client is an external collaborator.  It is modelled by    *)
(* the abstract capability of the specification's section 6: a keys-only   *)
(* query over the keys 1..store_count of the kind, fetched from a cursor   *)
(* with a limit, whose result exposes the keys read (pages) and the cursor *)
(* of the next page (next_page_token, absent at the end); delete_multi     *)
(* succeeds, raises ValueError or raises another error.                    *)
(*                                                                         *)
(* Python's None is the empty sequence <<>>; a present value v is <<v>>.   *)
(***************************************************************************)
EXTENDS Integers, Sequences, FiniteSets, TLC

\* ------------------------------------------------------------- constants
_CLEANUP_THREAD_POOL_WORKERS == 20
_CLEANUP_KIND_READ_BATCH_SIZE == 20000
_CLEANUP_KIND_DELETE_BATCH_SIZE == 500
_YCSB_COLLECTIONS == <<"usertable">>
\* time.sleep(10) is taken when task_id % ThrottleEvery == 0
ThrottleEvery == 10

\* --------------------------------------------------------------- bounds
\* Small collections hold up to MaxChunks delete batches, one key more or less.
MaxChunks == 2
\* Large collections hold up to MaxPages read batches plus a partial one.
MaxPages == 2

None == <<>>
Some(v) == <<v>>
Min(a, b) == IF a <= b THEN a ELSE b
Max(a, b) == IF a >= b THEN a ELSE b

SmallSizes ==
  { n \in { c * _CLEANUP_KIND_DELETE_BATCH_SIZE + d :
              c \in 0..MaxChunks, d \in {-1, 0, 1} } : n >= 0 }
\* p full pages, p full pages and one key, and the two-and-a-quarter pages
\* (45,000 entities) and ten pages (200,000 entities) of the test scenarios.
LargeSizes ==
  { p * _CLEANUP_KIND_READ_BATCH_SIZE + d : p \in 1..MaxPages, d \in {0, 1} }
  \cup { 2 * _CLEANUP_KIND_READ_BATCH_SIZE + 10 * _CLEANUP_KIND_DELETE_BATCH_SIZE,
         ThrottleEvery * _CLEANUP_KIND_READ_BATCH_SIZE }
Sizes == SmallSizes \cup LargeSizes
\* Entities the kind may hold before the benchmark is prepared.
PreSizes == {0, 1, _CLEANUP_KIND_DELETE_BATCH_SIZE + 1,
             _CLEANUP_KIND_READ_BATCH_SIZE + 1}

\* Outcomes of the external calls.
DeleteOutcomes == {"ok", "ValueError", "ServiceError"}
FetchOutcomes == {"ok", "ServiceError"}
CredentialOutcomes == {"ok", "CredentialsError"}

VARIABLES
  keyfile,              \* FLAGS.google_datastore_deletion_keyfile is set
  store_count,          \* entities of kind usertable in the store: keys 1..store_count
  pc,                   \* position of the main thread
  always_call_cleanup,  \* benchmark_spec.always_call_cleanup
  installed,            \* _Install has run on the VMs (packages, key file copy)
  ycsb_executor,        \* benchmark_spec.executor has been created
  prepare_exc,          \* exception Prepare left by ("none" if it returned or has not ended)
  cleanup_exc,          \* exception Cleanup left by
  pool_created,         \* Cleanup's ThreadPoolExecutor exists
  cred_calls,           \* calls of GetDatastoreDeleteCredentials
  pool,                 \* the executor's futures, in submission order
  rd_futures,           \* _ReadAndDeleteAllEntities: futures (indices into pool)
  cl_futures,           \* Cleanup: futures (indices into pool)
  total_entity_count,   \* _ReadAndDeleteAllEntities: total_entity_count
  task_id,              \* _ReadAndDeleteAllEntities: task_id
  start_cursor,         \* argument start_cursor of the pending ReadEntities call
  tasks,                \* every _DeletionTask created; deletion_task is the last
  sleeps,               \* calls of time.sleep(10): the task ids they followed
  logged_total,         \* total logged by line 329, None before
  read_log,             \* calls of query.fetch: task, cursor, outcome
  delete_log            \* calls of delete_multi: task, keys, outcome

vars == <<keyfile, store_count, pc, always_call_cleanup, installed, ycsb_executor,
          prepare_exc, cleanup_exc, pool_created, cred_calls, pool, rd_futures,
          cl_futures, total_entity_count, task_id, start_cursor, tasks, sleeps,
          logged_total, read_log, delete_log>>

phase_vars == <<always_call_cleanup, installed, ycsb_executor, prepare_exc>>
driver_vars == <<rd_futures, total_entity_count, task_id, start_cursor, tasks,
                 sleeps, logged_total, read_log, delete_log>>

\* ------------------------------------------------------- _DeletionTask
\* _DeletionTask.__init__
NewTask(kind, id) ==
  [kind |-> kind, task_id |-> id, query_iter |-> None, entities |-> None,
   entity_read_count |-> 0, entity_deletion_count |-> 0, deletion_error |-> FALSE]

\* query.fetch(start_cursor, limit): the keys after the cursor, at most limit
\* of them, and the cursor of the next page when keys remain.
Fetch(n, cursor, limit) ==
  LET from == IF cursor = None THEN 0 ELSE cursor[1]
      to   == Min(from + limit, n)
  IN [pages |-> [i \in 1..(to - from) |-> from + i],
      next_page_token |-> IF to < n THEN Some(to) ELSE None]

\* chunk = self.entities[:_CLEANUP_KIND_DELETE_BATCH_SIZE]
Chunk(entities) ==
  SubSeq(entities, 1, Min(Len(entities), _CLEANUP_KIND_DELETE_BATCH_SIZE))

\* Off by one: the slice drops the key that follows the chunk.
Rest_SkipsKey(entities) ==
  SubSeq(entities, _CLEANUP_KIND_DELETE_BATCH_SIZE + 2, Len(entities))

\* self.entities = self.entities[_CLEANUP_KIND_DELETE_BATCH_SIZE:]
Rest(entities) ==
  SubSeq(entities, _CLEANUP_KIND_DELETE_BATCH_SIZE + 1, Len(entities))

\* The count is credited with the keys of the chunk, not with the batch size.
Credit_ChunkLength(count, chunk) == count + Len(chunk)

\* self.entity_deletion_count += _CLEANUP_KIND_DELETE_BATCH_SIZE
Credit(count, chunk) == count + _CLEANUP_KIND_DELETE_BATCH_SIZE

\* Off by one: the count misses the last key read.
ReadCount_OneShort(entities) == Max(0, Len(entities) - 1)

\* self.entity_read_count = len(self.entities)
ReadCount(entities) == Len(entities)

\* current_entity_read_count += self.entity_read_count
NewTotal(current_entity_read_count, entity_read_count) ==
  current_entity_read_count + entity_read_count

\* The test is inverted: an empty kind stops the test, a non-empty one passes.
DatabaseNonEmpty_Inverted(n) == Fetch(n, None, 1).pages = <<>>

\* Prepare: if list(client.query(kind=kind).fetch(limit=1))
DatabaseNonEmpty(n) == Fetch(n, None, 1).pages # <<>>

deletion_task == tasks[Len(tasks)]
SetTask(t) == [tasks EXCEPT ![Len(tasks)] = t]


\* ------------------------------------------------------------ executor
\* executor.submit(fn): a pending future for fn is queued.
Future(fn) == [fn |-> fn, state |-> "pending", exception |-> "none"]

Running == { i \in 1..Len(pool) : pool[i].state = "running" }

\* What a worker's call of the submitted object ends with: None is not callable.
CallResult(fn) == IF fn = None THEN "TypeError" ELSE "none"

\* The wait returns at once, whatever the state of the futures.
AllCompleted_NoWait(fs) == TRUE

\* concurrent.futures.wait(futures, timeout=None, return_when=ALL_COMPLETED) returns
AllCompleted(fs) == \A k \in 1..Len(fs) : pool[fs[k]].state = "done"

\* An exception leaving Cleanup: nothing in the module catches it.
CleanupRaises(e) == /\ cleanup_exc' = e
                    /\ pc' = "Done"

\* What follows a Prepare that raised: the run stage is skipped and Cleanup is
\* still called when the benchmark asked for it.
AfterFailedPrepare == IF always_call_cleanup THEN "Cleanup" ELSE "Done"

\* The flag test is skipped: the store is checked and cleaned without the flag.
DeletionKeyfileSet_Ignored == TRUE

\* if FLAGS.google_datastore_deletion_keyfile: (Prepare line 210, Cleanup line 261)
DeletionKeyfileSet == keyfile

\* The fetch is tried again after an error.
OnFetchError_Retries(e) == /\ cleanup_exc' = cleanup_exc
                           /\ pc' = "RD_Read"

\* ReadEntities, lines 115-117: no handler around query.fetch; the error leaves
\* ReadEntities, _ReadAndDeleteAllEntities and Cleanup.
OnFetchError(e) == CleanupRaises(e)

\* The failed chunk is credited like a deleted one.
OnDeleteError_Credits(task, r) ==
  [task EXCEPT !.deletion_error = IF r = "ValueError" THEN TRUE ELSE @,
               !.entity_deletion_count = @ + _CLEANUP_KIND_DELETE_BATCH_SIZE]

\* DeleteEntities, lines 146-150: the task after delete_multi raised r; only a
\* ValueError enters the handler that sets deletion_error.
OnDeleteError(task, r) ==
  [task EXCEPT !.deletion_error = IF r = "ValueError" THEN TRUE ELSE @]

\* ----------------------------------------------------------------- Init
Init ==
  /\ keyfile \in BOOLEAN
  /\ store_count \in PreSizes
  /\ pc = "Prepare"
  /\ always_call_cleanup = FALSE
  /\ installed = FALSE
  /\ ycsb_executor = FALSE
  /\ prepare_exc = "none"
  /\ cleanup_exc = "none"
  /\ pool_created = FALSE
  /\ cred_calls = 0
  /\ pool = <<>>
  /\ rd_futures = <<>>
  /\ cl_futures = <<>>
  /\ total_entity_count = 0
  /\ task_id = 0
  /\ start_cursor = None
  /\ tasks = <<>>
  /\ sleeps = <<>>
  /\ logged_total = None
  /\ read_log = <<>>
  /\ delete_log = <<>>

\* -------------------------------------------------------------- Prepare
\* Prepare, line 207, and the test of line 210.
PrepareBegin ==
  /\ pc = "Prepare"
  /\ always_call_cleanup' = TRUE
  /\ pc' = IF DeletionKeyfileSet THEN "PrepareCheck" ELSE "PrepareInstall"
  /\ UNCHANGED <<keyfile, store_count, installed, ycsb_executor, prepare_exc,
                 cleanup_exc, pool_created, cred_calls, pool, cl_futures>>
  /\ UNCHANGED driver_vars

\* Prepare, lines 211-219: credentials, then the one-entity query of the kind.
PrepareCheck ==
  /\ pc = "PrepareCheck"
  /\ cred_calls' = cred_calls + 1
  /\ \E c \in CredentialOutcomes, f \in FetchOutcomes :
       IF c # "ok"
       THEN /\ prepare_exc' = c
            /\ pc' = AfterFailedPrepare
            /\ read_log' = read_log
       ELSE /\ read_log' = Append(read_log,
                             [task |-> 0, cursor |-> None, limit |-> 1, outcome |-> f])
            /\ IF f # "ok"
               THEN /\ prepare_exc' = f
                    /\ pc' = AfterFailedPrepare
               ELSE IF DatabaseNonEmpty(store_count)
                    THEN /\ prepare_exc' = "PrepareException"
                         /\ pc' = AfterFailedPrepare
                    ELSE /\ prepare_exc' = prepare_exc
                         /\ pc' = "PrepareInstall"
  /\ UNCHANGED <<keyfile, store_count, always_call_cleanup, installed, ycsb_executor,
                 cleanup_exc, pool_created, pool, cl_futures>>
  /\ UNCHANGED <<rd_futures, total_entity_count, task_id, start_cursor, tasks,
                 sleeps, logged_total, delete_log>>

\* Prepare, lines 224-230: install on the VMs, create the YCSB executor.
PrepareInstall ==
  /\ pc = "PrepareInstall"
  /\ installed' = TRUE
  /\ ycsb_executor' = TRUE
  /\ pc' = "Run"
  /\ UNCHANGED <<keyfile, store_count, always_call_cleanup, prepare_exc,
                 cleanup_exc, pool_created, cred_calls, pool, cl_futures>>
  /\ UNCHANGED driver_vars

\* Run, lines 243-256: YCSB loads the kind and runs the workload.
Run ==
  /\ pc = "Run"
  /\ ycsb_executor
  /\ \E n \in Sizes : /\ n >= store_count
                      /\ store_count' = n
  /\ pc' = "Cleanup"
  /\ UNCHANGED <<keyfile, cleanup_exc, pool_created, cred_calls, pool, cl_futures>>
  /\ UNCHANGED phase_vars
  /\ UNCHANGED driver_vars

\* -------------------------------------------------------------- Cleanup
\* Cleanup, lines 261-270 (and 281-282 when the flag is not set).
CleanupBegin ==
  /\ pc = "Cleanup"
  /\ IF DeletionKeyfileSet
     THEN /\ pool_created' = TRUE
          /\ cred_calls' = cred_calls + 1
          /\ \E c \in CredentialOutcomes :
               IF c = "ok" THEN pc' = "RD_Init" /\ cleanup_exc' = cleanup_exc
                           ELSE CleanupRaises(c)
     ELSE /\ pc' = "Done"
          /\ UNCHANGED <<pool_created, cred_calls, cleanup_exc>>
  /\ UNCHANGED <<keyfile, store_count, pool, cl_futures>>
  /\ UNCHANGED phase_vars
  /\ UNCHANGED driver_vars

\* _ReadAndDeleteAllEntities, lines 297-307: locals, query, first task.
RD_Init ==
  /\ pc = "RD_Init"
  /\ rd_futures' = <<>>
  /\ total_entity_count' = 0
  /\ task_id' = 1
  /\ tasks' = Append(tasks, NewTask(_YCSB_COLLECTIONS[1], 1))
  /\ start_cursor' = None
  /\ pc' = "RD_Read"
  /\ UNCHANGED <<keyfile, store_count, cleanup_exc, pool_created, cred_calls, pool,
                 cl_futures, sleeps, logged_total, read_log, delete_log>>
  /\ UNCHANGED phase_vars

\* _DeletionTask.ReadEntities, lines 115-123, called at line 308 or 317.
ReadEntities ==
  /\ pc = "RD_Read"
  /\ \E f \in FetchOutcomes :
       /\ read_log' = Append(read_log,
            [task |-> deletion_task.task_id, cursor |-> start_cursor,
             limit |-> _CLEANUP_KIND_READ_BATCH_SIZE, outcome |-> f])
       /\ IF f = "ok"
          THEN LET it == Fetch(store_count, start_cursor, _CLEANUP_KIND_READ_BATCH_SIZE)
               IN /\ tasks' = SetTask([deletion_task EXCEPT
                        !.query_iter = Some([next_page_token |-> it.next_page_token]),
                        !.entities = it.pages,
                        !.entity_read_count = ReadCount(it.pages)])
                  /\ total_entity_count' =
                       NewTotal(total_entity_count, ReadCount(it.pages))
                  /\ pc' = "DE_Begin"
                  /\ cleanup_exc' = cleanup_exc
          ELSE /\ OnFetchError(f)
               /\ UNCHANGED <<tasks, total_entity_count>>
  /\ UNCHANGED <<keyfile, store_count, pool_created, cred_calls, pool, cl_futures,
                 rd_futures, task_id, start_cursor, sleeps, logged_total, delete_log>>
  /\ UNCHANGED phase_vars

\* _DeletionTask.DeleteEntities, lines 134-136 and 151-153: called on the
\* driving thread while the argument of executor.submit is evaluated.
DE_Begin ==
  /\ pc = "DE_Begin"
  /\ pc' = IF deletion_task.entity_read_count >= 1 THEN "DE_Loop" ELSE "RD_Submit"
  /\ UNCHANGED <<keyfile, store_count, cleanup_exc, pool_created, cred_calls, pool,
                 cl_futures>>
  /\ UNCHANGED phase_vars
  /\ UNCHANGED driver_vars

\* DeleteEntities, lines 138-142 and 146-150: one turn of the while loop.
DE_DeleteChunk ==
  /\ pc = "DE_Loop"
  /\ deletion_task.entities # <<>>
  /\ LET chunk == Chunk(deletion_task.entities)
         t1    == [deletion_task EXCEPT !.entities = Rest(deletion_task.entities)]
     IN \E r \in DeleteOutcomes :
          /\ delete_log' = Append(delete_log,
               [task |-> deletion_task.task_id, keys |-> chunk, outcome |-> r])
          /\ IF r = "ok"
             THEN /\ tasks' = SetTask([t1 EXCEPT !.entity_deletion_count =
                                         Credit(t1.entity_deletion_count, chunk)])
                  /\ pc' = "DE_Loop"
                  /\ cleanup_exc' = cleanup_exc
             ELSE /\ tasks' = SetTask(OnDeleteError(t1, r))
                  /\ CleanupRaises(r)
  /\ UNCHANGED <<keyfile, store_count, pool_created, cred_calls, pool, cl_futures,
                 rd_futures, total_entity_count, task_id, start_cursor, sleeps,
                 logged_total, read_log>>
  /\ UNCHANGED phase_vars

\* DeleteEntities, lines 138 and 144-145: the loop ends, the method returns None.
DE_Return ==
  /\ pc = "DE_Loop"
  /\ deletion_task.entities = <<>>
  /\ pc' = "RD_Submit"
  /\ UNCHANGED <<keyfile, store_count, cleanup_exc, pool_created, cred_calls, pool,
                 cl_futures>>
  /\ UNCHANGED phase_vars
  /\ UNCHANGED driver_vars

\* _ReadAndDeleteAllEntities, lines 310-312 and 319-325: the value DeleteEntities
\* returned (None) is submitted, the future is recorded, and the throttle sleeps.
RD_Submit ==
  /\ pc = "RD_Submit"
  /\ pool' = Append(pool, Future(None))
  /\ rd_futures' = Append(rd_futures, Len(pool) + 1)
  /\ sleeps' = IF task_id > 1 /\ task_id % ThrottleEvery = 0
               THEN Append(sleeps, task_id) ELSE sleeps
  /\ pc' = "RD_LoopTest"
  /\ UNCHANGED <<keyfile, store_count, cleanup_exc, pool_created, cred_calls,
                 cl_futures, total_entity_count, task_id, start_cursor, tasks,
                 logged_total, read_log, delete_log>>
  /\ UNCHANGED phase_vars

\* _ReadAndDeleteAllEntities, lines 314-318: the loop test, and the loop body up
\* to the evaluation of the arguments of ReadEntities, read from the new task.
RD_NextTask ==
  /\ pc = "RD_LoopTest"
  /\ deletion_task.query_iter[1].next_page_token # None
  /\ task_id' = task_id + 1
  /\ LET new == NewTask(_YCSB_COLLECTIONS[1], task_id + 1)
     IN /\ tasks' = Append(tasks, new)
        /\ IF new.query_iter = None
           THEN /\ CleanupRaises("AttributeError")
                /\ start_cursor' = start_cursor
           ELSE /\ start_cursor' = new.query_iter[1].next_page_token
                /\ pc' = "RD_Read"
                /\ cleanup_exc' = cleanup_exc
  /\ UNCHANGED <<keyfile, store_count, pool_created, cred_calls, pool, cl_futures,
                 rd_futures, total_entity_count, sleeps, logged_total, read_log,
                 delete_log>>
  /\ UNCHANGED phase_vars

\* _ReadAndDeleteAllEntities, lines 314 and 327-330: no next page; wait for the
\* futures, log the total, return None.
RD_Wait ==
  /\ pc = "RD_LoopTest"
  /\ deletion_task.query_iter[1].next_page_token = None
  /\ AllCompleted(rd_futures)
  /\ logged_total' = Some(total_entity_count)
  /\ pc' = "CL_Submit"
  /\ UNCHANGED <<keyfile, store_count, cleanup_exc, pool_created, cred_calls, pool,
                 cl_futures, rd_futures, total_entity_count, task_id, start_cursor,
                 tasks, sleeps, read_log, delete_log>>
  /\ UNCHANGED phase_vars

\* Cleanup, lines 272-275: the value _ReadAndDeleteAllEntities returned is submitted.
CL_Submit ==
  /\ pc = "CL_Submit"
  /\ pool' = Append(pool, Future(None))
  /\ cl_futures' = Append(cl_futures, Len(pool) + 1)
  /\ pc' = "CL_Wait"
  /\ UNCHANGED <<keyfile, store_count, cleanup_exc, pool_created, cred_calls>>
  /\ UNCHANGED phase_vars
  /\ UNCHANGED driver_vars

\* Cleanup, lines 277-279.
CL_Wait ==
  /\ pc = "CL_Wait"
  /\ AllCompleted(cl_futures)
  /\ pc' = "Done"
  /\ UNCHANGED <<keyfile, store_count, cleanup_exc, pool_created, cred_calls, pool,
                 cl_futures>>
  /\ UNCHANGED phase_vars
  /\ UNCHANGED driver_vars

\* ThreadPoolExecutor: a free worker takes a pending future.
WorkerStart(i) ==
  /\ pool_created
  /\ pool[i].state = "pending"
  /\ Cardinality(Running) < _CLEANUP_THREAD_POOL_WORKERS
  /\ pool' = [pool EXCEPT ![i].state = "running"]
  /\ UNCHANGED <<keyfile, store_count, pc, cleanup_exc, pool_created, cred_calls,
                 cl_futures>>
  /\ UNCHANGED phase_vars
  /\ UNCHANGED driver_vars

\* ThreadPoolExecutor: the worker calls the submitted object and completes the future.
WorkerFinish(i) ==
  /\ pool[i].state = "running"
  /\ pool' = [pool EXCEPT ![i].state = "done", ![i].exception = CallResult(pool[i].fn)]
  /\ UNCHANGED <<keyfile, store_count, pc, cleanup_exc, pool_created, cred_calls,
                 cl_futures>>
  /\ UNCHANGED phase_vars
  /\ UNCHANGED driver_vars

Next ==
  \/ PrepareBegin
  \/ PrepareCheck
  \/ PrepareInstall
  \/ Run
  \/ CleanupBegin
  \/ RD_Init
  \/ ReadEntities
  \/ DE_Begin
  \/ DE_DeleteChunk
  \/ DE_Return
  \/ RD_Submit
  \/ RD_NextTask
  \/ RD_Wait
  \/ CL_Submit
  \/ CL_Wait
  \/ \E i \in 1..Len(pool) : WorkerStart(i)
  \/ \E i \in 1..Len(pool) : WorkerFinish(i)

Spec == Init /\ [][Next]_vars


\* =========================================================== properties
CeilDiv(a, b) == (a + b - 1) \div b

\* The calls of delete_multi made for task t, in order.
TaskCalls(t) == SelectSeq(delete_log, LAMBDA c : c.task = t)
OkCalls(t) == SelectSeq(delete_log, LAMBDA c : c.task = t /\ c.outcome = "ok")
FailedCalls(t) == SelectSeq(delete_log, LAMBDA c : c.task = t /\ c.outcome # "ok")

\* The keys of a sequence of calls, concatenated.
RECURSIVE Flatten(_)
Flatten(calls) ==
  IF calls = <<>> THEN <<>> ELSE Head(calls).keys \o Flatten(Tail(calls))

\* The fetches of the driver (task 0 is the query of Prepare).
HasRead(t) == \E k \in 1..Len(read_log) : read_log[k].task = t /\ read_log[k].outcome = "ok"
ReadOf(t) == read_log[CHOOSE k \in 1..Len(read_log) :
                        read_log[k].task = t /\ read_log[k].outcome = "ok"]
\* The page of keys the store returned to task t.
PageOf(t) == Fetch(store_count, ReadOf(t).cursor, ReadOf(t).limit).pages

\* DeleteEntities of task t has returned: its future was recorded, or is about to be.
DeleteReturned(t) ==
  \/ Len(rd_futures) >= t
  \/ t = Len(tasks) /\ pc = "RD_Submit"

\* The pages a keys-only query of n entities yields.
NumPages(n) == Max(1, CeilDiv(n, _CLEANUP_KIND_READ_BATCH_SIZE))

\* No external call of Cleanup has failed.
NoCallFailed ==
  /\ \A k \in 1..Len(read_log) : read_log[k].outcome = "ok"
  /\ \A k \in 1..Len(delete_log) : delete_log[k].outcome = "ok"
  /\ cleanup_exc # "CredentialsError"
  /\ prepare_exc \in {"none", "PrepareException"}

\* The per-collection driver has stopped: it returned (the total is logged) or raised.
DriverEnded == tasks # <<>> /\ (logged_total # None \/ pc = "Done")

\* C1: while no delete_multi call of a task has failed, the k-th call received
\* the k-th slice of at most 500 keys of the page, the calls followed by the
\* remaining keys are the page, and once DeleteEntities has returned there were
\* ceil(R / 500) calls whose keys, concatenated, are the page (none for R = 0).
C1_ChunkedDeletion ==
  \A t \in 1..Len(tasks) :
    (HasRead(t) /\ FailedCalls(t) = <<>>) =>
      LET calls == TaskCalls(t)
          page  == PageOf(t)
          B     == _CLEANUP_KIND_DELETE_BATCH_SIZE
      IN /\ \A k \in 1..Len(calls) :
              calls[k].keys = SubSeq(page, B * (k - 1) + 1, Min(B * k, Len(page)))
         /\ Flatten(calls) \o tasks[t].entities = page
         /\ DeleteReturned(t) =>
              /\ Len(calls) = CeilDiv(Len(page), B)
              /\ Flatten(calls) = page

\* A task returned from DeleteEntities after three calls, the last one partial.
C1_Witness ==
  \E t \in 1..Len(tasks) :
    /\ HasRead(t) /\ DeleteReturned(t) /\ FailedCalls(t) = <<>>
    /\ Len(TaskCalls(t)) = 3
    /\ Len(TaskCalls(t)[3].keys) < _CLEANUP_KIND_DELETE_BATCH_SIZE


\* C2 (as claimed): when no read and no delete fails, the driver ends by
\* returning normally, having created one task per page of the collection,
\* with the task ids 1..N in increasing order.
C2_PaginationTerminates ==
  (DriverEnded /\ NoCallFailed) =>
     /\ cleanup_exc = "none"
     /\ logged_total # None
     /\ Len(tasks) = NumPages(store_count)
     /\ \A t \in 1..Len(tasks) : tasks[t].task_id = t /\ HasRead(t)

\* C3 (as claimed): on 45,000 entities with no failing call, Cleanup ends
\* after 3 pages of 20,000 / 20,000 / 5,000 keys, 3 tasks and 90 delete_multi
\* calls, every key of the collection having been passed to delete_multi.
EndToEndEntities ==
  2 * _CLEANUP_KIND_READ_BATCH_SIZE + 10 * _CLEANUP_KIND_DELETE_BATCH_SIZE
C3_EndToEnd ==
  (store_count = EndToEndEntities /\ DriverEnded /\ pc = "Done" /\ NoCallFailed) =>
     /\ Len(tasks) = 3
     /\ tasks[1].entity_read_count = _CLEANUP_KIND_READ_BATCH_SIZE
     /\ tasks[2].entity_read_count = _CLEANUP_KIND_READ_BATCH_SIZE
     /\ tasks[3].entity_read_count = 10 * _CLEANUP_KIND_DELETE_BATCH_SIZE
     /\ Len(delete_log) = 90
     /\ Flatten(delete_log) = [i \in 1..store_count |-> i]

\* C4 (as claimed): a task one of whose delete_multi calls raised, whatever
\* the error, has deletion_error set, made no call after the failed one, and
\* the error left DeleteEntities (and so Cleanup); a task none of whose calls
\* raised has the flag unset.
C4_FailedFlag ==
  \A t \in 1..Len(tasks) :
    LET calls == TaskCalls(t)
    IN IF FailedCalls(t) # <<>>
       THEN /\ tasks[t].deletion_error = TRUE
            /\ calls[Len(calls)].outcome # "ok"
            /\ Len(FailedCalls(t)) = 1
            /\ cleanup_exc = calls[Len(calls)].outcome
       ELSE tasks[t].deletion_error = FALSE

\* C5 (as claimed): once the error of a failed delete call has surfaced from
\* the driver, every page of the collection has been read and given a task
\* and a future, and the wait on the futures has returned.
C5_FailureAfterWait ==
  ((\E t \in 1..Len(tasks) : FailedCalls(t) # <<>>) /\ cleanup_exc # "none") =>
     /\ Len(tasks) = NumPages(store_count)
     /\ Len(rd_futures) = Len(tasks)
     /\ AllCompleted(rd_futures)
     /\ logged_total # None

\* C6 (as claimed): the deletions run on the worker pool: a delete_multi call
\* of a task is made only once the task's future has been taken up by a
\* worker, every recorded future carries a callable, and at most 20 futures
\* run at once.
C6_DeletesOnPool ==
  /\ \A k \in 1..Len(delete_log) :
       LET t == delete_log[k].task
       IN /\ Len(rd_futures) >= t
          /\ pool[rd_futures[t]].state # "pending"
  /\ \A k \in 1..Len(rd_futures) : pool[rd_futures[k]].fn # None
  /\ Cardinality(Running) <= _CLEANUP_THREAD_POOL_WORKERS

C8_ThrottleSleeps ==
  (DriverEnded /\ NoCallFailed) =>
     /\ Len(sleeps) = NumPages(store_count) \div ThrottleEvery
     /\ \A k \in 1..Len(sleeps) : sleeps[k] = ThrottleEvery * k

\* C9: a task that has read a page of P keys has entity_read_count = P from
\* then on, whatever is done to the task later; the running total is the sum
\* of the read counts of the tasks; and once the driver has read all pages
\* (it logs the total) the total is the number of entities of the collection.
RECURSIVE SumReadCounts(_)
SumReadCounts(ts) ==
  IF ts = <<>> THEN 0 ELSE Head(ts).entity_read_count + SumReadCounts(Tail(ts))
C9_ReadCount ==
  /\ \A t \in 1..Len(tasks) :
       tasks[t].entity_read_count = IF HasRead(t) THEN Len(PageOf(t)) ELSE 0
  /\ total_entity_count = SumReadCounts(tasks)
  /\ logged_total # None => logged_total = Some(store_count)

\* The driver logged the total of a page that took several delete chunks.
C9_Witness ==
  /\ logged_total # None
  /\ Len(tasks) = 1
  /\ tasks[1].entity_read_count = 2 * _CLEANUP_KIND_DELETE_BATCH_SIZE + 1
  /\ tasks[1].entities = <<>>

\* Prepare has ended (returned: the run stage is next; or raised) and the run
\* stage has not loaded the kind: store_count is what Prepare found.
PrepareEnded == pc = "Run" \/ prepare_exc # "none"

\* The one-entity query of Prepare (task 0 of the fetch log) was answered.
PrepareQueryAnswered ==
  read_log # <<>> /\ read_log[1].task = 0 /\ read_log[1].outcome = "ok"

\* C10 (as claimed): a Prepare that found an entity in the kind raised
\* PrepareException and installed nothing and created no YCSB executor.
C10_NonEmptyStops ==
  (store_count >= 1 /\ PrepareEnded) =>
     /\ prepare_exc = "PrepareException"
     /\ ~installed
     /\ ~ycsb_executor

\* C10 (amended): with the deletion key file flag set, a Prepare that found an
\* entity in the kind installed nothing and created no YCSB executor, it
\* raised, and what it raised is PrepareException whenever its credentials were
\* acquired and its query answered.
C10_NonEmptyStopsWhenChecked ==
  (keyfile /\ store_count >= 1 /\ PrepareEnded) =>
     /\ ~installed
     /\ ~ycsb_executor
     /\ prepare_exc # "none"
     /\ PrepareQueryAnswered => prepare_exc = "PrepareException"

\* Prepare queried a non-empty kind and raised PrepareException.
C10_Witness ==
  /\ keyfile
  /\ store_count >= 1
  /\ PrepareQueryAnswered
  /\ prepare_exc = "PrepareException"
  /\ ~installed


\* The fetch made for task t, whatever its outcome.
FetchesOf(t) == SelectSeq(read_log, LAMBDA r : r.task = t)

\* C11 (as claimed): the first task reads with an absent cursor, and every task
\* after the first reads, or is about to read, from the next-page cursor that
\* the query iterator of the task before it exposed.
C11_CursorChain ==
  \A t \in 1..Len(tasks) :
    LET cursor == IF t = 1 THEN None
                  ELSE tasks[t - 1].query_iter[1].next_page_token
    IN \/ /\ t = Len(tasks)
          /\ pc = "RD_Read"
          /\ start_cursor = cursor
       \/ /\ Len(FetchesOf(t)) = 1
          /\ FetchesOf(t)[1].cursor = cursor

\* C12: a fetch of the driver that raised is the last call made to the store:
\* it is the only fetch of its task, no page was read and no task was created
\* after it, its task got no future and made no delete_multi call, and the
\* error has left the driver and Cleanup.
C12_ReadFailureStops ==
  \A k \in 1..Len(read_log) :
    (read_log[k].task >= 1 /\ read_log[k].outcome # "ok") =>
      LET t == read_log[k].task
      IN /\ k = Len(read_log)
         /\ Len(FetchesOf(t)) = 1
         /\ Len(tasks) = t
         /\ Len(rd_futures) = t - 1
         /\ TaskCalls(t) = <<>>
         /\ tasks[t].entities = None
         /\ cleanup_exc = read_log[k].outcome
         /\ pc = "Done"
         /\ logged_total = None

\* The fetch of the first page raised and Cleanup was left by the error.
C12_Witness ==
  /\ pc = "Done"
  /\ cleanup_exc = "ServiceError"
  /\ Len(tasks) = 1
  /\ Len(FetchesOf(1)) = 1
  /\ FetchesOf(1)[1].outcome = "ServiceError"


\* C13: when the driver logs the total and returns, it has recorded one future
\* per task created, each a distinct future of the pool, every one of them has
\* completed, and no delete_multi call is outstanding; when Cleanup returns,
\* its own futures have completed as well.
FuturesDone(fs) == \A k \in 1..Len(fs) : pool[fs[k]].state = "done"
C13_ReturnsAfterFutures ==
  /\ logged_total # None =>
       /\ Len(rd_futures) = Len(tasks)
       /\ \A i, j \in 1..Len(rd_futures) : rd_futures[i] = rd_futures[j] => i = j
       /\ FuturesDone(rd_futures)
       /\ \A t \in 1..Len(tasks) : DeleteReturned(t) /\ tasks[t].entities = <<>>
       /\ pc # "DE_Loop"
  /\ (pc = "Done" /\ cl_futures # <<>>) =>
       /\ FuturesDone(cl_futures)
       /\ FuturesDone(rd_futures)

\* The driver returned after a deletion of two chunks and after its future completed.
C13_Witness ==
  /\ logged_total # None
  /\ Len(rd_futures) = 1
  /\ pool[rd_futures[1]].state = "done"
  /\ Len(TaskCalls(1)) = 2

\* C14: a task whose k-th delete_multi call failed has entity_deletion_count =
\* 500 * (k - 1) and keeps exactly the keys of its page after the k-th chunk:
\* the keys of the failed chunk are gone from the task and were not deleted.
C14_FailedChunkDropped ==
  \A t \in 1..Len(tasks) :
    FailedCalls(t) # <<>> =>
      LET B     == _CLEANUP_KIND_DELETE_BATCH_SIZE
          calls == TaskCalls(t)
          k     == Len(calls)
          page  == PageOf(t)
      IN /\ calls[k].outcome # "ok"
         /\ \A j \in 1..(k - 1) : calls[j].outcome = "ok"
         /\ tasks[t].entity_deletion_count = B * (k - 1)
         /\ tasks[t].entities = SubSeq(page, B * k + 1, Len(page))
         /\ calls[k].keys = SubSeq(page, B * (k - 1) + 1, Min(B * k, Len(page)))
         /\ Flatten(OkCalls(t)) = SubSeq(page, 1, B * (k - 1))

\* The second delete_multi call of a task failed and keys of its page remain.
C14_Witness ==
  \E t \in 1..Len(tasks) :
    /\ Len(TaskCalls(t)) = 2
    /\ TaskCalls(t)[2].outcome # "ok"
    /\ tasks[t].entity_deletion_count = _CLEANUP_KIND_DELETE_BATCH_SIZE
    /\ tasks[t].entities # <<>>


\* C15 (as claimed): always_call_cleanup is set before Prepare checks the
\* store and so on every exit of Prepare; and after a Prepare that stopped on
\* a non-empty database, a Cleanup in which no call failed has passed every
\* entity of the kind, those that existed before the run, to delete_multi.
C15_CleanupAfterFailedPrepare ==
  /\ pc # "Prepare" => always_call_cleanup
  /\ prepare_exc # "none" => pc # "Run" /\ ~installed
  /\ (prepare_exc = "PrepareException" /\ pc = "Done" /\ NoCallFailed) =>
       /\ tasks # <<>>
       /\ Flatten(delete_log) = [i \in 1..store_count |-> i]

\* C16: without the deletion key file flag no pool is created, no credentials
\* are acquired, no query and no delete_multi call is made and no task or
\* future exists, Prepare never raises, and past Prepare the VMs are installed
\* and the YCSB executor exists whatever the kind held.
C16_NothingWithoutKeyfile ==
  ~keyfile =>
    /\ ~pool_created
    /\ cred_calls = 0
    /\ read_log = <<>>
    /\ delete_log = <<>>
    /\ pool = <<>> /\ tasks = <<>>
    /\ prepare_exc = "none" /\ cleanup_exc = "none"
    /\ pc \in {"Prepare", "PrepareInstall", "Run", "Cleanup", "Done"}
    /\ pc \in {"Run", "Cleanup", "Done"} => installed /\ ycsb_executor

\* Without the flag Prepare installed on a non-empty kind and Cleanup returned.
C16_Witness ==
  /\ ~keyfile
  /\ pc = "Done"
  /\ store_count >= 1
  /\ installed
  /\ ycsb_executor

====
